---- MODULE Spec2Model ----
(***************************************************************************)
(* KeysUpdateService of lido-keys-api: the periodic job that refreshes the *)
(* cached staking modules, curated operators and registry meta, guarded by *)
(* the OneAtTime decorator and supervised by a deadline timer.             *)
(*                                                                         *)
(* Time is counted in units of 15 minutes, so the 30 minute                *)
(* UPDATE_KEYS_TIMEOUT_MS is 2 units and timestamps are in the same unit.  *)
(***************************************************************************)
EXTENDS Integers, Sequences, FiniteSets

\* ------------------------------------------------------------------ bounds

\* last instant of the clock
MaxTime == 3
\* number of cycles that may start
MaxCycles == 2

\* ------------------------------------------------------- program constants

\* UPDATE_KEYS_TIMEOUT_MS = 30 * 60 * 1000, in units of 15 minutes
UPDATE_KEYS_TIMEOUT == 2

\* the only staking module id the fetch service accepts
CURATED_MODULE_ID == 1

\* ------------------------------------------------------------------ values

\* JavaScript undefined / null of a number-valued field
Undefined == -1

\* updateDeadlineTimer = undefined
NoTimer == 0

CURATED_ONCHAIN_V1_TYPE == "curated-onchain-v1"

\* RegistryMeta | null: null is the record whose fields are all Undefined,
\* which is what meta?.field evaluates to on a null meta
NullMeta == [keysOpIndex |-> Undefined, blockNumber |-> Undefined, timestamp |-> Undefined]

\* the registry meta as of block b: block b is mined at instant b + 1 and
\* keysOpIndex grows with the block
MetaAt(b) == [keysOpIndex |-> b, blockNumber |-> b, timestamp |-> b + 1]

\* the metas a read of the registry storage may return at instant t: the meta
\* of any block mined so far
Metas(t) == { MetaAt(b) : b \in 0..(t - 1) }

\* RegistryOperator: index, usedSigningKeys, totalSigningKeys
Operator(i, used, total) ==
  [index |-> i, usedSigningKeys |-> used, totalSigningKeys |-> total]

\* the operator lists a read of the registry storage may return
OperatorLists ==
  { <<>>, <<Operator(0, 1, 2)>>, <<Operator(0, 1, 2), Operator(1, 0, 1)>> }

\* the address of the staking module with id i
AddressOf(i) == IF i = 1 THEN "0xa1" ELSE "0xb2"

\* the module lists the StakingRouter contract may return: ids are unique
ContractModules ==
  LET Raw(i) == [id |-> i, stakingModuleAddress |-> AddressOf(i)]
  IN  { <<>>, <<Raw(1)>>, <<Raw(2)>>, <<Raw(1), Raw(2)>> }

\* block hashes getBlockHash('latest') may resolve to
BlockHashes == {"0xh1", "0xh2"}
NoHash == "none"

\* ------------------------------------------------------------------- state

VARIABLES
  initPc,               \* position of initialize()
  cyclePc,              \* await point of the running updateKeys body
  isExecuting,          \* flag of the OneAtTime decorator
  blockHash,            \* local blockHash of the running cycle
  meta,                 \* meta returned by updateCuratedMetricsCache, in flight
  stakingModules,       \* this.stakingModules
  curatedOperators,     \* this.curatedOperators
  curatedNonce,         \* this.curatedNonce
  lastBlockNumber,      \* this.lastBlockNumber
  lastTimestampSec,     \* this.lastTimestampSec
  prometheus,           \* gauges of PrometheusService
  now,                  \* wall clock
  timers,               \* every setTimeout made: deadline and status
  updateDeadlineTimer,  \* this.updateDeadlineTimer: index into timers
  exitReason,           \* "none" while the process runs
  active,               \* executions of the updateKeys body in progress
  started,              \* cycles started
  idleTriggers,         \* triggers that arrived while no cycle was running
  dropped,              \* some trigger arrived while a cycle was running
  pre,                  \* cache when the current / last cycle started
  outcome,              \* how the last finished cycle ended
  lastMeta,             \* meta fetched by the last successful cycle
  run,                  \* length of the current run of successful cycles with increasing meta
  lastArm,              \* instant of the last call of checkKeysUpdateTimeout
  cleanArms,            \* every re-arm so far cancelled the deadline it replaced
  storageBlock,         \* block reference of the last curated updateKeys call
  operatorsBlock,       \* block reference the operators and meta in flight were stored at
  lookup                \* the call of getStakingModule that returns in this step, if any

cacheVars ==
  <<stakingModules, curatedOperators, curatedNonce, lastBlockNumber, lastTimestampSec>>

timerVars == <<timers, updateDeadlineTimer, lastArm, cleanArms>>

triggerVars == <<active, started, idleTriggers, dropped>>

historyVars == <<pre, outcome, lastMeta, run>>

registryVars == <<storageBlock, operatorsBlock>>

vars ==
  <<initPc, cyclePc, isExecuting, blockHash, meta, cacheVars, prometheus, now,
    timerVars, exitReason, triggerVars, historyVars, registryVars, lookup>>

\* the cache as a reader sees it
Snapshot ==
  [modules |-> stakingModules, operators |-> curatedOperators,
   keysOpIndex |-> curatedNonce, blockNumber |-> lastBlockNumber,
   timestamp |-> lastTimestampSec]

exited == exitReason # "none"

\* ----------------------------------------------------------------- helpers

\* a ?? b on number-valued fields
Coalesce(a, b) == IF a = Undefined THEN b ELSE a

\* truthiness of a number | undefined: undefined and 0 are falsy
Truthy(n) == n # Undefined /\ n # 0

\* a setTimeout made at instant t with the given delay
Timer(t, delay) == [deadline |-> t + delay, status |-> "pending"]

\* clearTimeout(handle): a cancelled timer is forgotten by the runtime
clearTimeout(ts, handle) == [ts EXCEPT ![handle] = [deadline |-> 0, status |-> "cleared"]]

PendingTimers == { i \in 1..Len(timers) : timers[i].status = "pending" }

DueTimers == { i \in PendingTimers : timers[i].deadline <= now }

\* the continuations of an await on an already settled promise run as
\* microtasks: no timer callback and no interval tick runs between them
InMicrotask == cyclePc \in {"metaReturned", "cacheUpdated"}

\* ------------------------------------------- StakingRouterFetchService

\* accepts every module of the contract's list
UnknownModuleIgnored(raw) == FALSE

\* a module of the contract's list the fetch service does not know
UnknownModule(raw) == \E i \in 1..Len(raw) : raw[i].id # CURATED_MODULE_ID

\* the transformed modules getStakingModules returns
getStakingModules(raw) ==
  [i \in 1..Len(raw) |->
     [id |-> raw[i].id,
      stakingModuleAddress |-> raw[i].stakingModuleAddress,
      type |-> CURATED_ONCHAIN_V1_TYPE]]

\* ------------------------------------------------------ getStakingModule

\* a ModuleId: a number or a string
Num(n) == [isString |-> FALSE, n |-> n, s |-> ""]
Str(s) == [isString |-> TRUE, n |-> 0, s |-> s]

\* the identifiers a caller may pass
ModuleIds == { Num(1), Num(2), Str("1"), Str("0x1"), Str("0xa1"), Str("0xb2") }

\* ToNumber of a string that is no numeric literal
NotANumber == -2

\* ToNumber of a string: decimal and hexadecimal literals are numbers
ToNumber(s) ==
  CASE s = "1" -> 1
    [] s = "2" -> 2
    [] s = "0x1" -> 1
    [] s = "0xa1" -> 161
    [] s = "0xb2" -> 178
    [] OTHER -> NotANumber

\* string == moduleId
StringLooseEquals(str, x) ==
  IF x.isString THEN str = x.s
  ELSE ToNumber(str) # NotANumber /\ ToNumber(str) = x.n

\* number == moduleId
NumberLooseEquals(num, x) ==
  IF x.isString THEN ToNumber(x.s) # NotANumber /\ ToNumber(x.s) = num
  ELSE num = x.n

\* the predicate of find written with === instead of ==
StrictlyMatches(module, x) ==
  \/ x.isString /\ module.stakingModuleAddress = x.s
  \/ ~x.isString /\ module.id = x.n

\* the predicate of find: module.stakingModuleAddress == moduleId || module.id == moduleId
Matches(module, x) ==
  \/ StringLooseEquals(module.stakingModuleAddress, x)
  \/ NumberLooseEquals(module.id, x)

\* Array.prototype.find: the first matching element, <<>> for undefined
RECURSIVE find(_, _, _)
find(modules, x, i) ==
  IF i > Len(modules) THEN <<>>
  ELSE IF Matches(modules[i], x) THEN <<modules[i]>>
  ELSE find(modules, x, i + 1)

getStakingModule(x) == find(stakingModules, x, 1)

NoLookup == [called |-> FALSE, moduleId |-> Num(0), result |-> <<>>, cache |-> <<>>]

\* a caller invokes getStakingModule: the call is synchronous, so calls return
\* one at a time; the result is there until the next step
GetStakingModule ==
  /\ ~exited
  /\ ~lookup.called
  /\ \E x \in ModuleIds :
       lookup' = [called |-> TRUE, moduleId |-> x, result |-> getStakingModule(x),
                  cache |-> <<stakingModules>>]
  /\ UNCHANGED <<initPc, cyclePc, isExecuting, blockHash, meta, cacheVars, prometheus,
                 now, timerVars, exitReason, triggerVars, historyVars, registryVars>>

\* ---------------------------------------------------------------- watchdog

\* isUpdated of checkKeysUpdateTimeout
isUpdated ==
  Truthy(lastTimestampSec) /\ now - lastTimestampSec < UPDATE_KEYS_TIMEOUT

\* re-arms without cancelling the deadline it replaces
checkKeysUpdateTimeoutNoClear ==
  /\ timers' = Append(timers, Timer(now, UPDATE_KEYS_TIMEOUT))
  /\ updateDeadlineTimer' = Len(timers) + 1
  /\ lastArm' = now
  /\ cleanArms' = (cleanArms /\ (updateDeadlineTimer = NoTimer \/ isUpdated))

\* cancels the pending deadline and schedules no new one
checkKeysUpdateTimeoutNoRearm ==
  /\ timers' = IF updateDeadlineTimer # NoTimer /\ isUpdated
               THEN clearTimeout(timers, updateDeadlineTimer)
               ELSE timers
  /\ updateDeadlineTimer' = updateDeadlineTimer
  /\ lastArm' = now
  /\ cleanArms' = (cleanArms /\ (updateDeadlineTimer = NoTimer \/ isUpdated))

checkKeysUpdateTimeout ==
  LET kept == IF updateDeadlineTimer # NoTimer /\ isUpdated
              THEN clearTimeout(timers, updateDeadlineTimer)
              ELSE timers
  IN  /\ timers' = Append(kept, Timer(now, UPDATE_KEYS_TIMEOUT))
      /\ updateDeadlineTimer' = Len(timers) + 1
      /\ lastArm' = now
      /\ cleanArms' = (cleanArms /\ (updateDeadlineTimer = NoTimer \/ isUpdated))

\* the callback of the deadline timer: process.exit(1)
TimerFire ==
  /\ ~exited
  /\ lookup' = NoLookup
  /\ ~InMicrotask
  /\ \E i \in DueTimers :
       /\ timers' = [timers EXCEPT ![i].status = "fired"]
       /\ exitReason' = "LivenessTimeout"
  /\ UNCHANGED <<initPc, cyclePc, isExecuting, blockHash, meta, cacheVars, prometheus,
                 now, updateDeadlineTimer, lastArm, cleanArms, triggerVars, historyVars, registryVars>>

\* the clock advances; a due timer runs before the clock passes it
Advance ==
  /\ ~exited
  /\ lookup' = NoLookup
  /\ ~InMicrotask
  /\ now < MaxTime
  /\ DueTimers = {}
  /\ now' = now + 1
  /\ UNCHANGED <<initPc, cyclePc, isExecuting, blockHash, meta, cacheVars, prometheus,
                 timerVars, exitReason, triggerVars, historyVars, registryVars>>

\* ----------------------------------------------------------------- metrics

\* the entries set for the operators of a list
OperatorEntries(operators) ==
  UNION { { [operator |-> operators[i].index, srModuleId |-> 1, used |-> "true",
             value |-> operators[i].usedSigningKeys],
            [operator |-> operators[i].index, srModuleId |-> 1, used |-> "false",
             value |-> operators[i].totalSigningKeys - operators[i].usedSigningKeys] }
          : i \in 1..Len(operators) }

\* sets the entries of the operators without the reset: entries of other labels stay
setCuratedOperatorsMetricNoReset(operators) ==
  LET new == OperatorEntries(operators)
      old == prometheus.registryNumberOfKeysBySRModuleAndOperator
  IN  new \cup { e \in old :
                   ~\E n \in new : n.operator = e.operator /\ n.used = e.used }

\* setCuratedOperatorsMetric: reset, then one used and one unused entry per operator
setCuratedOperatorsMetric(operators) == OperatorEntries(operators)

\* setMetrics and setCuratedMetrics
setMetrics(p) ==
  [registryLastUpdate |->
     IF Truthy(lastTimestampSec) THEN lastTimestampSec ELSE p.registryLastUpdate,
   registryBlockNumber |->
     IF Truthy(lastBlockNumber) THEN lastBlockNumber ELSE p.registryBlockNumber,
   registryNonce |->
     IF Truthy(curatedNonce) THEN curatedNonce ELSE p.registryNonce,
   registryNumberOfKeysBySRModuleAndOperator |->
     setCuratedOperatorsMetric(curatedOperators)]

\* ------------------------------------------------------------- updateKeys

\* the body of updateKeys starts: wrapJob calls the callback, which awaits getBlockHash
updateKeysStart ==
  /\ cyclePc' = "getBlockHash"
  /\ blockHash' = NoHash
  /\ meta' = NullMeta
  /\ active' = active + 1
  /\ started' = started + 1
  /\ idleTriggers' = idleTriggers + (IF active = 0 THEN 1 ELSE 0)
  /\ pre' = Snapshot
  /\ operatorsBlock' = NoHash
  /\ UNCHANGED <<dropped, outcome, lastMeta, run, storageBlock>>

\* OneAtTime: a call made while an execution is in progress returns at once
OneAtTime(body) ==
  IF isExecuting
  THEN /\ dropped' = TRUE
       /\ UNCHANGED <<isExecuting, cyclePc, blockHash, meta, active, started,
                      idleTriggers, historyVars, registryVars>>
  ELSE /\ isExecuting' = TRUE
       /\ body

\* updateKeys without its decorator
updateKeysUndecorated ==
  /\ isExecuting' = isExecuting
  /\ updateKeysStart

\* a call of the decorated updateKeys
updateKeys == OneAtTime(updateKeysStart)

\* initialize registering the interval without awaiting the initial updateKeys
InitializeIntervalFirst ==
  /\ ~exited
  /\ lookup' = NoLookup
  /\ initPc = "constructed"
  /\ checkKeysUpdateTimeout
  /\ updateKeys
  /\ initPc' = "intervalSet"
  /\ UNCHANGED <<cacheVars, prometheus, now, exitReason>>

\* initialize up to its await of the initial updateKeys
Initialize ==
  /\ ~exited
  /\ lookup' = NoLookup
  /\ initPc = "constructed"
  /\ checkKeysUpdateTimeout
  /\ updateKeys
  /\ initPc' = "awaitInitial"
  /\ UNCHANGED <<cacheVars, prometheus, now, exitReason>>

\* the callback of setInterval
Tick ==
  /\ ~exited
  /\ lookup' = NoLookup
  /\ ~InMicrotask
  /\ initPc = "intervalSet"
  /\ (cyclePc # "idle" \/ started < MaxCycles)
  /\ updateKeys
  /\ UNCHANGED <<initPc, cacheVars, prometheus, now, timerVars, exitReason>>

\* getBlockHash('latest') resolves; getStakingModules is called with it
GetBlockHashResolved ==
  /\ ~exited
  /\ lookup' = NoLookup
  /\ cyclePc = "getBlockHash"
  /\ \E h \in BlockHashes : blockHash' = h
  /\ cyclePc' = "getStakingModules"
  /\ UNCHANGED <<initPc, isExecuting, meta, cacheVars, prometheus, now, timerVars,
                 exitReason, triggerVars, historyVars, registryVars>>

\* getStakingModules resolves, or exits the process on an unknown module;
\* the list is assigned and the curated updateKeys calls are awaited
GetStakingModulesResolved ==
  /\ ~exited
  /\ lookup' = NoLookup
  /\ cyclePc = "getStakingModules"
  /\ \E raw \in ContractModules :
       IF UnknownModule(raw)
       THEN /\ exitReason' = "UnknownModuleType"
            /\ UNCHANGED <<cyclePc, stakingModules>>
       ELSE /\ stakingModules' = getStakingModules(raw)
            /\ cyclePc' = "curatedUpdateKeys"
            /\ UNCHANGED exitReason
  /\ UNCHANGED <<initPc, isExecuting, blockHash, meta, curatedOperators, curatedNonce,
                 lastBlockNumber, lastTimestampSec, prometheus, now, timerVars,
                 triggerVars, historyVars, registryVars>>

\* the curated updateKeys calls of a cycle: one per cached module of the curated
\* type, each handed the block hash of the cycle
curatedUpdateKeys(hash) ==
  IF \E i \in 1..Len(stakingModules) : stakingModules[i].type = CURATED_ONCHAIN_V1_TYPE
  THEN hash
  ELSE storageBlock

\* Promise.all of the curated updateKeys calls resolves; updateMetricsCache calls
\* updateCuratedMetricsCache, which awaits getOperatorsWithMeta
CuratedUpdateKeysResolved ==
  /\ ~exited
  /\ lookup' = NoLookup
  /\ cyclePc = "curatedUpdateKeys"
  /\ cyclePc' = "getOperatorsWithMeta"
  /\ storageBlock' = curatedUpdateKeys(blockHash)
  /\ UNCHANGED <<initPc, isExecuting, blockHash, meta, cacheVars, prometheus, now,
                 timerVars, exitReason, triggerVars, historyVars, operatorsBlock>>

\* updateCuratedMetricsCache after its await
updateCuratedMetricsCache(operators, m) ==
  /\ curatedNonce' = Coalesce(m.keysOpIndex, curatedNonce)
  /\ curatedOperators' = operators
  /\ meta' = m

GetOperatorsWithMetaResolved ==
  /\ ~exited
  /\ lookup' = NoLookup
  /\ cyclePc = "getOperatorsWithMeta"
  /\ \E operators \in OperatorLists, m \in Metas(now) \cup {NullMeta} :
       updateCuratedMetricsCache(operators, m)
  /\ cyclePc' = "metaReturned"
  /\ operatorsBlock' = storageBlock
  /\ UNCHANGED <<initPc, isExecuting, blockHash, stakingModules, lastBlockNumber,
                 lastTimestampSec, prometheus, now, timerVars, exitReason,
                 triggerVars, historyVars, storageBlock>>

\* keeps the cached value whenever there is one
updateMetricsCacheKeepsOld ==
  /\ lastTimestampSec' = Coalesce(lastTimestampSec, meta.timestamp)
  /\ lastBlockNumber' = Coalesce(lastBlockNumber, meta.blockNumber)

\* updateMetricsCache after its await
updateMetricsCache ==
  /\ lastTimestampSec' = Coalesce(meta.timestamp, lastTimestampSec)
  /\ lastBlockNumber' = Coalesce(meta.blockNumber, lastBlockNumber)

UpdateMetricsCacheResumed ==
  /\ ~exited
  /\ lookup' = NoLookup
  /\ cyclePc = "metaReturned"
  /\ updateMetricsCache
  /\ cyclePc' = "cacheUpdated"
  /\ UNCHANGED <<initPc, isExecuting, blockHash, meta, stakingModules, curatedOperators,
                 curatedNonce, prometheus, now, timerVars, exitReason, triggerVars,
                 historyVars, registryVars>>

\* the running execution ends: the decorator clears its flag, and initialize,
\* if it awaits the initial run, registers the interval
updateKeysReturns ==
  /\ isExecuting' = FALSE
  /\ active' = active - 1
  /\ cyclePc' = "idle"
  /\ blockHash' = NoHash
  /\ meta' = NullMeta
  /\ initPc' = IF initPc = "awaitInitial" THEN "intervalSet" ELSE initPc
  /\ operatorsBlock' = NoHash
  /\ UNCHANGED <<started, idleTriggers, dropped, pre, storageBlock>>

\* the rest of the callback: setMetrics, checkKeysUpdateTimeout
UpdateKeysFinished ==
  /\ ~exited
  /\ lookup' = NoLookup
  /\ cyclePc = "cacheUpdated"
  /\ prometheus' = setMetrics(prometheus)
  /\ checkKeysUpdateTimeout
  /\ updateKeysReturns
  /\ outcome' = "success"
  /\ lastMeta' = meta
  /\ run' = IF meta = NullMeta THEN 0
            ELSE IF run >= 1 /\ lastMeta.blockNumber < meta.blockNumber THEN run + 1
            ELSE 1
  /\ UNCHANGED <<cacheVars, now, exitReason>>

\* the await points at which a chain or registry call may reject
Rejectable ==
  \/ cyclePc \in {"getBlockHash", "getStakingModules", "getOperatorsWithMeta"}
  \/ cyclePc = "curatedUpdateKeys" /\ stakingModules # <<>>

\* the rejection is caught nowhere and ends the process
UpdateKeysFailedUncaught ==
  /\ ~exited
  /\ lookup' = NoLookup
  /\ Rejectable
  /\ exitReason' = "UnhandledRejection"
  /\ UNCHANGED <<initPc, cyclePc, isExecuting, blockHash, meta, cacheVars, prometheus,
                 now, timerVars, triggerVars, historyVars, registryVars>>

\* the rejection leaves the guard of the decorator set
UpdateKeysFailedKeepsFlag ==
  /\ ~exited
  /\ lookup' = NoLookup
  /\ Rejectable
  /\ isExecuting' = isExecuting
  /\ active' = active - 1
  /\ cyclePc' = "idle"
  /\ blockHash' = NoHash
  /\ meta' = NullMeta
  /\ initPc' = IF initPc = "awaitInitial" THEN "intervalSet" ELSE initPc
  /\ outcome' = "failed"
  /\ operatorsBlock' = NoHash
  /\ UNCHANGED <<started, idleTriggers, dropped, pre, cacheVars, prometheus, now,
                 timerVars, exitReason, lastMeta, run, storageBlock>>

\* the failed cycle re-arms the deadline as a completed one does
UpdateKeysFailedRearms ==
  /\ ~exited
  /\ lookup' = NoLookup
  /\ Rejectable
  /\ checkKeysUpdateTimeout
  /\ updateKeysReturns
  /\ outcome' = "failed"
  /\ UNCHANGED <<cacheVars, prometheus, now, exitReason, lastMeta, run>>

\* a chain or registry call rejects: the callback is abandoned
UpdateKeysFailed ==
  /\ ~exited
  /\ lookup' = NoLookup
  /\ Rejectable
  /\ updateKeysReturns
  /\ outcome' = "failed"
  /\ UNCHANGED <<cacheVars, prometheus, now, timerVars, exitReason, lastMeta, run>>

\* --------------------------------------------------------- specification

Init ==
  /\ initPc = "constructed"
  /\ cyclePc = "idle"
  /\ isExecuting = FALSE
  /\ blockHash = NoHash
  /\ meta = NullMeta
  /\ stakingModules = <<>>
  /\ curatedOperators = <<>>
  /\ curatedNonce = Undefined
  /\ lastBlockNumber = Undefined
  /\ lastTimestampSec = Undefined
  /\ prometheus = [registryLastUpdate |-> Undefined, registryBlockNumber |-> Undefined,
                   registryNonce |-> Undefined,
                   registryNumberOfKeysBySRModuleAndOperator |-> {}]
  /\ now = 1
  /\ timers = <<>>
  /\ updateDeadlineTimer = NoTimer
  /\ exitReason = "none"
  /\ active = 0
  /\ started = 0
  /\ idleTriggers = 0
  /\ dropped = FALSE
  /\ pre = Snapshot
  /\ outcome = "none"
  /\ lastMeta = NullMeta
  /\ run = 0
  /\ lastArm = 0
  /\ cleanArms = TRUE
  /\ storageBlock = NoHash
  /\ operatorsBlock = NoHash
  /\ lookup = NoLookup

Next ==
  \/ Initialize
  \/ Tick
  \/ GetBlockHashResolved
  \/ GetStakingModulesResolved
  \/ CuratedUpdateKeysResolved
  \/ GetOperatorsWithMetaResolved
  \/ UpdateMetricsCacheResumed
  \/ UpdateKeysFinished
  \/ UpdateKeysFailed
  \/ TimerFire
  \/ Advance

Spec == Init /\ [][Next]_vars

\* the application calls initialize at startup; the continuations of settled
\* promises are run as microtasks; timers are run by the event loop: the clock
\* keeps advancing and a due deadline callback is run. Nothing makes a chain or
\* registry call settle, and nothing makes the interval tick.
LiveSpec ==
  /\ Spec
  /\ WF_vars(Initialize)
  /\ WF_vars(UpdateMetricsCacheResumed)
  /\ WF_vars(UpdateKeysFinished)
  /\ WF_vars(Advance)
  /\ WF_vars(TimerFire)

\* the service together with the callers of its query method
NextWithReaders == Next \/ GetStakingModule

ReadSpec == Init /\ [][NextWithReaders]_vars

\* -------------------------------------------------------------- properties

\* C1: for every sequence of triggers (the initial run and any number of
\* interval ticks), at most one execution of updateKeys is active at any instant.
C1_AtMostOneActive == active <= 1

\* a tick arrived while a cycle was running, and the cycle is still the only one
C1_Witness == active = 1 /\ dropped /\ cyclePc = "getOperatorsWithMeta"

\* C2: a tick that arrives while a cycle is running is dropped and not queued:
\* the cycles ever started are at most the triggers that arrived while no cycle
\* was running, so no cycle starts at a completion without a new tick.
C2_DroppedNotQueued == started <= idleTriggers

\* a tick was dropped, the cycle it met has ended, and no cycle was started for it
C2_Witness ==
  dropped /\ active = 0 /\ cyclePc = "idle" /\ outcome = "success" /\ started = idleTriggers

\* C3: once lastBlockNumber, lastTimestampSec and curatedNonce hold a value, no
\* step of a cycle sets any of them to a smaller value, whatever the fetch returns.
C3_MetaNeverRegresses ==
  /\ pre.blockNumber # Undefined => lastBlockNumber >= pre.blockNumber
  /\ pre.timestamp # Undefined => lastTimestampSec >= pre.timestamp
  /\ pre.keysOpIndex # Undefined => curatedNonce >= pre.keysOpIndex

\* C4: a cycle that fetches a meta whose blockNumber is strictly less than the
\* cached one ends without an error and leaves the whole cache as it was.
C4_StaleFetchLeavesCache ==
  ( /\ cyclePc = "idle"
    /\ outcome = "success"
    /\ lastMeta # NullMeta
    /\ pre.blockNumber # Undefined
    /\ lastMeta.blockNumber < pre.blockNumber )
  => Snapshot = pre

\* C5: after a run of N successful cycles whose fetched meta is strictly
\* increasing, the cached meta equals the meta fetched in cycle N.
C5_CacheHoldsLatestMeta ==
  (cyclePc = "idle" /\ run >= 1)
  => /\ curatedNonce = lastMeta.keysOpIndex
     /\ lastBlockNumber = lastMeta.blockNumber
     /\ lastTimestampSec = lastMeta.timestamp

\* a run of two cycles with increasing meta has completed
C5_Witness == cyclePc = "idle" /\ run >= 2 /\ lastBlockNumber = lastMeta.blockNumber

\* C6: if no cycle completes within UPDATE_KEYS_TIMEOUT of the instant the
\* watchdog was last armed, the deadline timer fires and the process exits: the
\* process never outlives the last armed deadline, and every behaviour whose last
\* armed deadline lies within the clock's range ends in the process exiting.
C6_WatchdogTerminates ==
  /\ []((initPc # "constructed" /\ ~exited) => now <= lastArm + UPDATE_KEYS_TIMEOUT)
  /\ <>(exited \/ lastArm + UPDATE_KEYS_TIMEOUT > MaxTime)

\* the initial refresh hangs and the deadline armed by initialize ends the process
C6_Witness ==
  /\ exitReason = "LivenessTimeout"
  /\ cyclePc = "getBlockHash"
  /\ started = 1
  /\ now = lastArm + UPDATE_KEYS_TIMEOUT

Published ==
  [modules |-> stakingModules, operators |-> curatedOperators,
   keysOpIndex |-> Coalesce(meta.keysOpIndex, pre.keysOpIndex),
   blockNumber |-> Coalesce(meta.blockNumber, pre.blockNumber),
   timestamp |-> Coalesce(meta.timestamp, pre.timestamp)]

\* C8: at any instant, also at any await point of a running cycle, the modules,
\* operators and meta a reader sees are entirely the previous snapshot or
\* entirely the new one.
C8_NoTornSnapshot ==
  active >= 1
  => \/ Snapshot = pre
     \/ cyclePc \in {"metaReturned", "cacheUpdated"} /\ Snapshot = Published

\* C9: a cycle in which a chain or registry call throws publishes nothing: the
\* cache after the failed cycle equals the cache before it.
C9_FailedCyclePublishesNothing ==
  (cyclePc = "idle" /\ outcome = "failed") => Snapshot = pre

\* C10: getStakingModule(x) returns a cached module whose id or address equals x
\* whenever there is one, returns undefined when there is none, and leaves the
\* cache as it was.
C10_GetStakingModule ==
  lookup.called =>
    LET x == lookup.moduleId
        matching == { i \in 1..Len(stakingModules) :
                        \/ StringLooseEquals(stakingModules[i].stakingModuleAddress, x)
                        \/ NumberLooseEquals(stakingModules[i].id, x) }
    IN  /\ lookup.cache = <<stakingModules>>
        /\ IF matching = {}
           THEN lookup.result = <<>>
           ELSE \E i \in matching : lookup.result = <<stakingModules[i]>>

\* a module is found by its id given as a string
C10_Witness ==
  /\ lookup.called
  /\ lookup.moduleId = Str("1")
  /\ lookup.result # <<>>

\* C11: a fetched module list with a module of unknown type (an id other than
\* 1) terminates the process during that fetch, and the cache never holds such
\* a module: every cached module is the curated module of type CuratedOnchainV1.
C11_OnlyKnownModulesCached ==
  /\ \A i \in 1..Len(stakingModules) :
       /\ stakingModules[i].id = CURATED_MODULE_ID
       /\ stakingModules[i].type = CURATED_ONCHAIN_V1_TYPE
  /\ exitReason = "UnknownModuleType"
       => cyclePc = "getStakingModules" /\ stakingModules = pre.modules

\* the second cycle met an unknown module and the process ended with the
\* module list of the first cycle still cached
C11_Witness ==
  exitReason = "UnknownModuleType" /\ started = 2 /\ stakingModules # <<>>

\* C12: the process terminates only by the watchdog deadline firing or by the
\* detection of an unknown module; a failed cycle, at startup or on a tick, does
\* not terminate it and leaves the service ready for the next tick.
C12_OnlyTwoWaysToExit ==
  /\ exitReason \in {"none", "LivenessTimeout", "UnknownModuleType"}
  /\ exitReason = "LivenessTimeout"
       => \E i \in 1..Len(timers) :
            timers[i].status = "fired" /\ timers[i].deadline <= now
  /\ exitReason = "UnknownModuleType" => cyclePc = "getStakingModules"
  /\ (outcome = "failed" /\ cyclePc = "idle")
       => /\ exitReason \in {"none", "LivenessTimeout"}
          /\ initPc = "intervalSet"
          /\ ~isExecuting

\* the initial cycle failed, the process lives on and a tick has started a
\* second cycle
C12_Witness ==
  /\ ~exited
  /\ outcome = "failed"
  /\ started = 2
  /\ cyclePc = "getStakingModules"

\* C13: after every successful cycle the operator key-count metric holds
\* exactly one used and one unused entry for each operator fetched in that
\* cycle, and no entry of an operator that is no longer fetched.
C13_OperatorMetricRebuilt ==
  (cyclePc = "idle" /\ outcome = "success")
  => LET m == prometheus.registryNumberOfKeysBySRModuleAndOperator
         indexes == { curatedOperators[i].index : i \in 1..Len(curatedOperators) }
     IN  /\ { e.operator : e \in m } = indexes
         /\ \A k \in indexes :
              /\ Cardinality({ e \in m : e.operator = k /\ e.used = "true" }) = 1
              /\ Cardinality({ e \in m : e.operator = k /\ e.used = "false" }) = 1
         /\ \A i \in 1..Len(curatedOperators) :
              LET o == curatedOperators[i]
              IN  /\ [operator |-> o.index, srModuleId |-> 1, used |-> "true",
                      value |-> o.usedSigningKeys] \in m
                  /\ [operator |-> o.index, srModuleId |-> 1, used |-> "false",
                      value |-> o.totalSigningKeys - o.usedSigningKeys] \in m

\* an operator fetched by the previous cycle is not fetched by this one
C13_Witness ==
  /\ cyclePc = "idle"
  /\ outcome = "success"
  /\ Len(pre.operators) = 2
  /\ Len(curatedOperators) = 1

C16_GuardReleasedAfterCycle ==
  /\ cyclePc = "idle" => ~isExecuting /\ active = 0
  /\ (cyclePc = "idle" /\ initPc = "intervalSet" /\ ~exited /\ started < MaxCycles)
       => ENABLED (Tick /\ cyclePc' = "getBlockHash")

\* a cycle has failed and a later tick has started the next one, which has
\* resolved its block
C16_Witness ==
  /\ outcome = "failed"
  /\ started = 2
  /\ isExecuting
  /\ blockHash # NoHash

\* C17: initialize registers the interval only after the initial cycle has
\* finished, by success or by failure: no tick runs before that, and after it
\* the interval is registered whatever the outcome.
C17_InitialCycleBeforeInterval ==
  /\ initPc = "intervalSet" => outcome # "none"
  /\ initPc # "intervalSet" => started <= 1 /\ ~dropped
  /\ outcome # "none" => initPc = "intervalSet"

\* the initial cycle failed and the interval is registered
C17_Witness ==
  /\ initPc = "intervalSet"
  /\ outcome = "failed"
  /\ started = 1
  /\ cyclePc = "idle"
  /\ ~exited

\* C20: from the first step of initialize until the process exits a deadline
\* timer is pending in every state.
C20_WatchdogAlwaysArmed ==
  (initPc # "constructed" /\ ~exited) => PendingTimers # {}

\* a cycle has completed and re-armed the deadline, and a second cycle has failed
C20_Witness ==
  /\ ~exited
  /\ outcome = "failed"
  /\ started = 2
  /\ cyclePc = "idle"
  /\ Len(timers) = 2
  /\ PendingTimers # {}

\* C19: after every successful cycle the last-update gauge, the block-number
\* gauge and the sequence-number gauge of the curated module equal the cached
\* timestamp, block number and sequence number, a value of 0 included.
C19_GaugesEqualCache ==
  (cyclePc = "idle" /\ outcome = "success")
  => /\ prometheus.registryLastUpdate = lastTimestampSec
     /\ prometheus.registryBlockNumber = lastBlockNumber
     /\ prometheus.registryNonce = curatedNonce

\* C15: a cycle that fails does not reset the watchdog: no step taken while a
\* cycle is in progress, other than the one that completes it, touches the
\* deadline timer, so the pending timer and its firing time are the same after
\* a failed cycle as before it.
C15_FailedCycleKeepsDeadline ==
  [][(cyclePc # "idle" /\ ~(cyclePc' = "idle" /\ outcome' = "success"))
     => /\ updateDeadlineTimer' = updateDeadlineTimer
        /\ Len(timers') = Len(timers)
        /\ \A i \in 1..Len(timers) : timers'[i].deadline = timers[i].deadline
        /\ exitReason' = exitReason => timers' = timers]_vars

\* a cycle has failed some time after the deadline was armed, and the deadline
\* armed by initialize is still the pending one
C15_Witness ==
  /\ ~exited
  /\ cyclePc = "idle"
  /\ outcome = "failed"
  /\ started = 1
  /\ now > lastArm
  /\ timers = <<Timer(1, UPDATE_KEYS_TIMEOUT)>>
  /\ updateDeadlineTimer = 1

\* C18: every sub-fetch of a cycle reads the state of the block the cycle
\* resolved: the operators and meta a cycle publishes were stored at the block
\* hash its module list was read at.
C18_OneBlockPerCycle ==
  cyclePc \in {"metaReturned", "cacheUpdated"} => operatorsBlock = blockHash

====
